---------------------------- MODULE Spec2Model ----------------------------
(* A model of the SDS011 driver (package sds011, sds011.go): the wire codec, *)
(* the read-validate loop, the command layer and the Listen/Stop controller. *)
(* Byte slices are sequences of 0..255; Go index i is TLA+ index i+1.        *)
(* Time is counted in seconds elapsed since readAndValidate was entered.     *)
EXTENDS Integers, Naturals, Sequences, FiniteSets, TLC

(***************************************************************************)
(* Bounds of the model.                                                    *)
(***************************************************************************)
\* channels that Listen may allocate in one behaviour
MaxChans == 2
\* handler goroutines started in one behaviour
MaxHandlers == 2
\* longest duration of one port.Read call, in seconds
MaxReadDur == 1

(***************************************************************************)
(* Program constants (sds011.go:16-67).                                    *)
(***************************************************************************)
packetLength == 10
ModeActive == 0
ModeQuery == 1
modeCommand == 2
queryCommand == 4
deviceIDCommand == 5
sleepWorkCommand == 6
workingPeriodCommand == 8
firmwareVersionCommand == 7
cmdTypeQuery == 192
cmdTypeGeneral == 197
head == 170
tail == 171
\* defaultTimeout = 2 * time.Second
defaultTimeout == 2
\* the id New gives the handle (0xffff)
BroadcastID == 65535

NIL == 0
Listeners == {"L1", "L2"}
Stoppers == {"S1", "S2"}
Commander == "cmd"
Readers == Listeners \cup {Commander}
Procs == Readers \cup Stoppers

(***************************************************************************)
(* Wire codec: pure functions.                                             *)
(***************************************************************************)
RECURSIVE SumBytes(_)
SumBytes(b) == IF b = <<>> THEN 0 ELSE Head(b) + SumBytes(Tail(b))

\* checksum with the mask 0x7f in place of 0xff
checksum7(b) == SumBytes(b) % 128

\* func checksum(b []byte) byte
checksum(b) == SumBytes(b) % 256

\* func toBytes(u uint16) []byte: big endian
toBytes(u) == << (u \div 256) % 256, u % 256 >>

\* func contains(s []byte, b byte) bool
contains(s, b) == \E i \in 1..Len(s) : s[i] = b

\* Go's b[i]
At(b, i) == b[i + 1]

\* Go's b[lo:hi]
Slice(b, lo, hi) == SubSeq(b, lo + 1, hi)

\* binary.BigEndian.Uint16 in its place
BigEndianUint16(b) == 256 * At(b, 0) + At(b, 1)

\* binary.LittleEndian.Uint16
LittleEndianUint16(b) == At(b, 0) + 256 * At(b, 1)

\* Measurement: the two fields in tenths of a microgram per cubic metre
NoMeasurement == [PM25 |-> 0, PM10 |-> 0]

\* func unmarshal(b []byte) (Measurement, error)
unmarshal(b) ==
  IF Len(b) /= packetLength
  THEN [m |-> NoMeasurement, err |-> "bad packet length"]
  ELSE [m |-> [PM25 |-> LittleEndianUint16(Slice(b, 2, 4)),
               PM10 |-> LittleEndianUint16(Slice(b, 4, 6))],
        err |-> "nil"]

\* validate without the test of the tail (lines 303-305)
validateNoTail(b, typ, cmd) ==
  IF Len(b) /= packetLength THEN "bad packet length"
  ELSE IF At(b, 0) /= head THEN "bad header"
  ELSE IF At(b, 1) /= typ THEN "incorrect command type"
  ELSE IF typ /= cmdTypeQuery /\ At(b, 2) /= cmd THEN "incorrect command ID"
  ELSE IF At(b, 8) /= checksum(Slice(b, 2, 8)) THEN "bad checksum"
  ELSE "nil"

\* func validate(b []byte, typ commandType, cmd command) error
validate(b, typ, cmd) ==
  IF Len(b) /= packetLength THEN "bad packet length"
  ELSE IF At(b, 0) /= head THEN "bad header"
  ELSE IF At(b, 1) /= typ THEN "incorrect command type"
  ELSE IF typ /= cmdTypeQuery /\ At(b, 2) /= cmd THEN "incorrect command ID"
  ELSE IF At(b, 9) /= tail THEN "bad tail"
  ELSE IF At(b, 8) /= checksum(Slice(b, 2, 8)) THEN "bad checksum"
  ELSE "nil"

\* copy(data, b) into data := make([]byte, n)
PadTo(b, n) == [i \in 1..n |-> IF i <= Len(b) THEN b[i] ELSE 0]

\* Dev.write with a data region of 12 bytes
WriteFrame12(b, devid) ==
  LET data == PadTo(b, 12)
  IN  <<head, 180>> \o data \o toBytes(devid)
        \o <<checksum(data \o toBytes(devid))>> \o <<tail>>

\* the bytes Dev.write hands to port.Write
WriteFrame(b, devid) ==
  LET data == PadTo(b, 13)
  IN  <<head, 180>> \o data \o toBytes(devid)
        \o <<checksum(data \o toBytes(devid))>> \o <<tail>>

(***************************************************************************)
(* The transport (serial.Port): what one port.Read call may yield.         *)
(***************************************************************************)
\* a well-formed inbound frame of the given type and 6-byte payload
MkFrame(typ, payload) == <<head, typ>> \o payload \o <<checksum(payload), tail>>

ReplaceAt(b, i, v) == [b EXCEPT ![i + 1] = v]

QueryFrames ==
  { MkFrame(cmdTypeQuery, <<45, 0, 184, 0, 84, 111>>),
    MkFrame(cmdTypeQuery, <<0, 0, 0, 0, 84, 111>>) }

AckFrames ==
  { MkFrame(cmdTypeGeneral, <<c, 1, 0, 0, 84, 111>>) :
      c \in {modeCommand, deviceIDCommand, sleepWorkCommand, workingPeriodCommand} }
  \cup { MkFrame(cmdTypeGeneral, <<firmwareVersionCommand, 18, 11, 7, 84, 111>>) }

BadFrames ==
  LET q == MkFrame(cmdTypeQuery, <<45, 0, 184, 0, 84, 111>>)
  IN  { ReplaceAt(q, 0, 171), ReplaceAt(q, 1, 193),
        ReplaceAt(q, 9, 172), ReplaceAt(q, 8, 169) }

WireFrames == QueryFrames \cup AckFrames \cup BadFrames

ZeroPacket == [i \in 1..packetLength |-> 0]

\* results of port.Read(packet): an I/O error, a short read, or a full packet
PortReads ==
  { [n |-> 0, err |-> "io", data |-> ZeroPacket] }
  \cup { [n |-> k, err |-> "nil", data |-> ZeroPacket] : k \in {0, 9} }
  \cup { [n |-> packetLength, err |-> "nil", data |-> f] : f \in WireFrames }

\* results of port.Write
PortWrites == {"nil", "io"}

\* func (d *Dev) read() ([]byte, error), given what port.Read yielded
read(o) ==
  IF o.err /= "nil" THEN [b |-> <<>>, err |-> o.err]
  ELSE IF o.n /= packetLength THEN [b |-> <<>>, err |-> "bad packet length"]
  ELSE IF At(o.data, 0) /= head THEN [b |-> <<>>, err |-> "bad header"]
  ELSE IF ~contains(<<cmdTypeQuery, cmdTypeGeneral>>, At(o.data, 1))
       THEN [b |-> <<>>, err |-> "bad command type"]
  ELSE IF At(o.data, packetLength - 1) /= tail THEN [b |-> <<>>, err |-> "bad tail"]
  ELSE [b |-> o.data, err |-> "nil"]

\* line 265 with only the read's error tested
retryErrOnly(b, err, typ, cmd) == err /= "nil"

\* the loop condition of readAndValidate (line 265)
retry(b, err, typ, cmd) == err /= "nil" \/ validate(b, typ, cmd) /= "nil"

\* line 266 with the deadline a second late
deadlinePassedLate(elapsed, timeout) == elapsed > timeout + 1

\* the deadline test of readAndValidate (line 266)
deadlinePassed(elapsed, timeout) == elapsed > timeout

\* func (d *Dev) sense(): what it makes of readAndValidate's result
sense(b, err) ==
  IF err /= "nil" THEN [m |-> NoMeasurement, err |-> err] ELSE unmarshal(b)

(***************************************************************************)
(* State.                                                                  *)
(***************************************************************************)
VARIABLES
  pc,          \* position of every goroutine
  mu,          \* d.mu: "free" or the goroutine holding it
  doneChan,    \* d.doneChan: NIL or a channel
  id,          \* d.id
  readTimeout, \* d.readTimeout
  nextChan,    \* number of channels made so far
  closeCount,  \* per channel, how often close() was applied to it
  panicked,    \* a close of a closed channel panicked: the program is dead
  listenRet,   \* what each goroutine's last Listen call returned
  stopChan,    \* the value of d.doneChan each goroutine's last Stop call found
  handlers,    \* the measurements handed to "go h(m)", in order
  rv,          \* readAndValidate's frame of each reading goroutine
  polled,      \* m, err of the Listen loop (line 127)
  cop,         \* the command operation in progress
  cmdBytes,    \* the cmd slice of the operation in progress
  written,     \* frames handed to port.Write by the operation in progress
  cmdRet,      \* what the operation returned
  io,          \* what the operation did on the transport
  codec,       \* a call of a codec function: its arguments and its result
  ackedIDs,    \* the ids the sensor has acknowledged in answer to SetDeviceID
  running,     \* handler goroutines that have not returned
  lateDispatch \* handlers started since d.doneChan was closed

vars == <<pc, mu, doneChan, id, readTimeout, nextChan, closeCount, panicked,
          listenRet, stopChan, handlers, rv, polled, cop, cmdBytes, written,
          cmdRet, io, codec, ackedIDs, running, lateDispatch>>

taskVars == <<running, lateDispatch>>
listenVars == <<mu, doneChan, nextChan, closeCount, panicked, listenRet,
                stopChan, handlers, polled, taskVars>>
cmdVars == <<cop, cmdBytes, written, cmdRet, io>>
devVars == <<id, readTimeout, ackedIDs>>
codecVars == <<codec>>

Chans == 1..MaxChans

NoRead == [n |-> 0, err |-> "nil", data |-> <<>>]
NoRv == [typ |-> 0, cmd |-> 0, elapsed |-> 0, readAt |-> 0, b |-> <<>>, err |-> "nil",
         raw |-> NoRead]
NoPoll == [m |-> NoMeasurement, err |-> "nil"]
NoOp == [name |-> "none", arg |-> 0]
NoRet == [err |-> "none", val |-> <<>>]
NoIO == [werr |-> "none", reads |-> FALSE, failed |-> FALSE, afterFail |-> FALSE]
NoCodec == [fn |-> "none", isnil |-> FALSE, b |-> <<>>, typ |-> 0, cmd |-> 0,
            done |-> FALSE, out |-> "none"]

isClosed(c) == closeCount[c] > 0

\* the channel of d.doneChan has been closed (line 150)
doneClosed == doneChan /= NIL /\ isClosed(doneChan)

\* the handle as New returns it, nothing called yet
DevInit ==
  /\ pc = [p \in Procs |-> "idle"]
  /\ mu = "free"
  /\ doneChan = NIL
  /\ id = BroadcastID
  /\ readTimeout = defaultTimeout
  /\ nextChan = 0
  /\ closeCount = [c \in Chans |-> 0]
  /\ panicked = FALSE
  /\ listenRet = [l \in Listeners |-> "none"]
  /\ stopChan = [s \in Stoppers |-> NIL]
  /\ handlers = <<>>
  /\ rv = [p \in Readers |-> NoRv]
  /\ polled = [l \in Listeners |-> NoPoll]
  /\ cop = NoOp
  /\ cmdBytes = <<>>
  /\ written = <<>>
  /\ cmdRet = NoRet
  /\ io = NoIO
  /\ ackedIDs = {}
  /\ running = 0
  /\ lateDispatch = 0

Init == DevInit /\ codec = NoCodec

(***************************************************************************)
(* readAndValidate, run by a Listen goroutine or by the command caller.    *)
(***************************************************************************)
\* where readAndValidate returns to
Caller(p) == IF p \in Listeners THEN "L128" ELSE "Cret"

\* the frames the transport may deliver to p
Readable(p) ==
  IF p \in Listeners /\ Len(handlers) >= MaxHandlers
  THEN { o \in PortReads : o.data \notin QueryFrames }
  ELSE PortReads

\* line 262: start := time.Now()
EnterRV(p, typ, cmd) ==
  rv' = [rv EXCEPT ![p] = [NoRv EXCEPT !.typ = typ, !.cmd = cmd]]

\* lines 265-272 after a read of o left b, err at time elapsed: the loop
\* condition, the deadline test and the two returns; raw keeps what port.Read
\* yielded to the read the call returns from
Check(p, o, b, err, readAt, elapsed) ==
  IF retry(b, err, rv[p].typ, rv[p].cmd)
  THEN IF deadlinePassed(elapsed, readTimeout)
       THEN /\ rv' = [rv EXCEPT ![p].b = b, ![p].err = "errTimeout", ![p].raw = o,
                                ![p].readAt = readAt, ![p].elapsed = elapsed]
            /\ pc' = [pc EXCEPT ![p] = Caller(p)]
       ELSE /\ rv' = [rv EXCEPT ![p].elapsed = elapsed]
            /\ pc' = [pc EXCEPT ![p] = "R270"]
  ELSE /\ rv' = [rv EXCEPT ![p].b = b, ![p].err = err, ![p].raw = o,
                           ![p].readAt = readAt, ![p].elapsed = elapsed]
       /\ pc' = [pc EXCEPT ![p] = Caller(p)]

\* lines 264 and 270: b, err = d.read(), which lasts dur seconds, followed by
\* the loop condition (the steps between two reads touch no shared state)
Read(p) ==
  /\ ~panicked
  /\ pc[p] \in {"R264", "R270"}
  /\ \E o \in Readable(p), dur \in 0..MaxReadDur :
       LET r == read(o)
       IN  /\ Check(p, o, r.b, r.err, rv[p].elapsed, rv[p].elapsed + dur)
           /\ io' = IF p = Commander
                    THEN [werr |-> io.werr, reads |-> TRUE,
                          failed |-> io.failed \/ o.err /= "nil",
                          afterFail |-> io.afterFail \/ io.failed]
                    ELSE io
  /\ UNCHANGED <<listenVars, devVars, codecVars, cop, cmdBytes, written, cmdRet>>

(***************************************************************************)
(* Listen.                                                                 *)
(***************************************************************************)
cmdIdle == pc[Commander] = "idle"

\* goroutines that are in Listen and have not yet passed line 112
Entering == {l \in Listeners : pc[l] \in {"L107", "L112"}}

\* line 107 with the test left out
alreadyListeningNever(ch) == FALSE

\* line 107: if d.doneChan != nil
alreadyListening(ch) == ch /= NIL

\* line 128 with the timeout no longer told apart
isTimeoutNever(err) == FALSE

\* line 128: if err == errTimeout
isTimeout(err) == err = "errTimeout"

\* lines 116-117 with the receive case never ready
cancelledNever(ch) == FALSE

\* lines 116-117: case <-d.doneChan is ready once the channel is closed; a
\* receive from a nil channel never is
cancelled(ch) == ch /= NIL /\ isClosed(ch)

\* line 133 as a plain call h(m): the loop goes on once no handler runs
awaitsHandlerSync(r) == r > 0

\* line 133: go h(m) does not wait for the r handlers that run
awaitsHandler(r) == FALSE

\* line 106: d.mu.Lock()
ListenLock(l) ==
  /\ ~panicked
  /\ pc[l] = "idle"
  /\ cmdIdle
  /\ nextChan + Cardinality(Entering) < MaxChans
  /\ mu = "free"
  /\ mu' = l
  /\ pc' = [pc EXCEPT ![l] = "L107"]
  /\ listenRet' = [listenRet EXCEPT ![l] = "none"]
  /\ UNCHANGED <<doneChan, nextChan, closeCount, panicked, stopChan, handlers,
                 polled, rv, devVars, codecVars,
                 cmdVars, taskVars>>

\* lines 107-110: if d.doneChan != nil { unlock; return "already listening" }
ListenCheck(l) ==
  /\ ~panicked
  /\ pc[l] = "L107"
  /\ IF alreadyListening(doneChan)
     THEN /\ mu' = "free"
          /\ listenRet' = [listenRet EXCEPT ![l] = "already listening"]
          /\ pc' = [pc EXCEPT ![l] = "idle"]
     ELSE /\ pc' = [pc EXCEPT ![l] = "L112"]
          /\ UNCHANGED <<mu, listenRet>>
  /\ UNCHANGED <<doneChan, nextChan, closeCount, panicked, stopChan, handlers,
                 polled, rv, devVars, codecVars,
                 cmdVars, taskVars>>

\* lines 112-113: d.doneChan = make(chan struct{}); d.mu.Unlock()
ListenMake(l) ==
  /\ ~panicked
  /\ pc[l] = "L112"
  /\ nextChan' = nextChan + 1
  /\ doneChan' = nextChan + 1
  /\ mu' = "free"
  /\ pc' = [pc EXCEPT ![l] = "L116"]
  /\ UNCHANGED <<closeCount, panicked, listenRet, stopChan, handlers, polled,
                 rv, devVars, codecVars,
                 cmdVars, taskVars>>

\* lines 116-127: select { case <-d.doneChan: ...; default: }, then d.sense()
ListenSelect(l) ==
  /\ ~panicked
  /\ pc[l] = "L116"
  /\ ~awaitsHandler(running)
  /\ IF cancelled(doneChan)
     THEN /\ pc' = [pc EXCEPT ![l] = "L118"]
          /\ UNCHANGED rv
     ELSE /\ pc' = [pc EXCEPT ![l] = "R264"]
          /\ EnterRV(l, cmdTypeQuery, queryCommand)
  /\ polled' = [polled EXCEPT ![l] = NoPoll]
  /\ UNCHANGED <<mu, doneChan, nextChan, closeCount, panicked, listenRet,
                 stopChan, handlers, devVars, codecVars,
                 cmdVars, taskVars>>

\* line 118: d.mu.Lock()
ListenDoneLock(l) ==
  /\ ~panicked
  /\ pc[l] = "L118"
  /\ mu = "free"
  /\ mu' = l
  /\ pc' = [pc EXCEPT ![l] = "L122"]
  /\ UNCHANGED <<doneChan, nextChan, closeCount, panicked, listenRet, stopChan,
                 handlers, polled, rv, devVars, codecVars,
                 cmdVars, taskVars>>

\* lines 122-123: d.doneChan = nil; return nil (the deferred Unlock runs)
ListenReset(l) ==
  /\ ~panicked
  /\ pc[l] = "L122"
  /\ doneChan' = NIL
  /\ lateDispatch' = 0
  /\ mu' = "free"
  /\ listenRet' = [listenRet EXCEPT ![l] = "nil"]
  /\ pc' = [pc EXCEPT ![l] = "idle"]
  /\ UNCHANGED <<nextChan, closeCount, panicked, stopChan, handlers, polled,
                 rv, devVars, codecVars,
                 cmdVars, running>>

\* lines 127-132: m, err := d.sense(); timeout: continue; other error: return
ListenPolled(l) ==
  /\ ~panicked
  /\ pc[l] = "L128"
  /\ LET r == sense(rv[l].b, rv[l].err)
     IN  /\ polled' = [polled EXCEPT ![l] = r]
         /\ IF isTimeout(r.err)
            THEN /\ pc' = [pc EXCEPT ![l] = "L116"]
                 /\ UNCHANGED listenRet
            ELSE IF r.err /= "nil"
            THEN /\ pc' = [pc EXCEPT ![l] = "idle"]
                 /\ listenRet' = [listenRet EXCEPT ![l] = r.err]
            ELSE /\ pc' = [pc EXCEPT ![l] = "L133"]
                 /\ UNCHANGED listenRet
  /\ rv' = [rv EXCEPT ![l] = NoRv]
  /\ UNCHANGED <<mu, doneChan, nextChan, closeCount, panicked, stopChan,
                 handlers, devVars, codecVars,
                 cmdVars, taskVars>>

\* line 133: go h(m)
ListenDispatch(l) ==
  /\ ~panicked
  /\ pc[l] = "L133"
  /\ handlers' = Append(handlers, polled[l].m)
  /\ running' = running + 1
  /\ lateDispatch' = IF doneClosed THEN lateDispatch + 1 ELSE lateDispatch
  /\ pc' = [pc EXCEPT ![l] = "L116"]
  /\ UNCHANGED <<mu, doneChan, nextChan, closeCount, panicked, listenRet,
                 stopChan, polled, rv, devVars, codecVars, cmdVars>>

\* a handler returns; nothing says that it ever does
HandlerReturn ==
  /\ ~panicked
  /\ running > 0
  /\ running' = running - 1
  /\ UNCHANGED <<pc, mu, doneChan, nextChan, closeCount, panicked, listenRet,
                 stopChan, handlers, polled, lateDispatch, rv, devVars,
                 codecVars, cmdVars>>

(***************************************************************************)
(* Stop.                                                                   *)
(***************************************************************************)
\* line 138 left out: Stop goes on without the mutex
StopLockNoMutex(s) ==
  /\ ~panicked
  /\ pc[s] = "idle"
  /\ pc' = [pc EXCEPT ![s] = "S142"]
  /\ UNCHANGED <<listenVars, rv, devVars, codecVars, cmdVars>>

\* line 138: d.mu.Lock()
StopLock(s) ==
  /\ ~panicked
  /\ pc[s] = "idle"
  /\ cmdIdle
  /\ mu = "free"
  /\ mu' = s
  /\ pc' = [pc EXCEPT ![s] = "S142"]
  /\ UNCHANGED <<doneChan, nextChan, closeCount, panicked, listenRet, stopChan,
                 handlers, polled, rv, devVars, codecVars,
                 cmdVars, taskVars>>

\* lines 142-144: if d.doneChan == nil { return }
StopCheck(s) ==
  /\ ~panicked
  /\ pc[s] = "S142"
  /\ stopChan' = [stopChan EXCEPT ![s] = doneChan]
  /\ IF doneChan = NIL
     THEN /\ mu' = "free"
          /\ pc' = [pc EXCEPT ![s] = "idle"]
     ELSE /\ pc' = [pc EXCEPT ![s] = "S146"]
          /\ UNCHANGED mu
  /\ UNCHANGED <<doneChan, nextChan, closeCount, panicked, listenRet, handlers,
                 polled, rv, devVars, codecVars,
                 cmdVars, taskVars>>

\* close(c): closing a closed channel panics
close(c) ==
  /\ closeCount' = [closeCount EXCEPT ![c] = @ + 1]
  /\ panicked' = isClosed(c)

\* lines 146-152 without the select: close(d.doneChan) whatever its state
closeAlways(c) == close(c)

\* lines 146-152: close(d.doneChan) unless a receive from it succeeds
closeIfOpen(c) ==
  IF isClosed(c)
  THEN UNCHANGED <<closeCount, panicked>>
  ELSE close(c)

\* lines 146-153: the select, then the deferred Unlock
StopClose(s) ==
  /\ ~panicked
  /\ pc[s] = "S146"
  /\ closeIfOpen(doneChan)
  /\ mu' = "free"
  /\ pc' = [pc EXCEPT ![s] = "idle"]
  /\ UNCHANGED <<doneChan, nextChan, listenRet, stopChan, handlers, polled, rv,
                 devVars, codecVars,
                 cmdVars, taskVars>>

(***************************************************************************)
(* The command layer: one caller issuing one operation at a time.  Commands *)
(* and Listen share only the transport, whose results are arbitrary, so the *)
(* caller keeps them apart, as the package requires of it.                  *)
(***************************************************************************)
DeviceIDs == {41312}
Periods == {-1, 0, 5, 30, 31}

Ops ==
  { [name |-> n, arg |-> 0] : n \in {"Sense", "Sleep", "Wake", "GetFirmwareVersion"} }
  \cup { [name |-> "SetMode", arg |-> m] : m \in {ModeActive, ModeQuery} }
  \cup { [name |-> "SetDeviceID", arg |-> i] : i \in DeviceIDs }
  \cup { [name |-> "SetPeriod", arg |-> m] : m \in Periods }

\* line 196 with the upper limit off by one
badPeriodStrict(minutes) == minutes < 0 \/ minutes >= 30

\* the argument check of SetPeriod (line 196)
badPeriod(minutes) == minutes < 0 \/ minutes > 30

\* func (d *Dev) sleepWake(sw byte): its cmd slice
sleepWake(sw) == <<sleepWorkCommand, 1, sw>>

\* the cmd slice each operation builds
CmdBytes(op) ==
  CASE op.name = "Sense" -> <<queryCommand>>
    [] op.name = "SetMode" -> <<modeCommand, 1, op.arg>>
    [] op.name = "SetDeviceID" -> PadTo(<<deviceIDCommand>>, 11) \o toBytes(op.arg)
    [] op.name = "Sleep" -> sleepWake(0)
    [] op.name = "Wake" -> sleepWake(1)
    [] op.name = "SetPeriod" -> <<workingPeriodCommand, 1, op.arg % 256>>
    [] op.name = "GetFirmwareVersion" -> <<firmwareVersionCommand>>

\* the response type each operation passes to readAndValidate
ExpectedType(op) == IF op.name = "Sense" THEN cmdTypeQuery ELSE cmdTypeGeneral

\* the command each operation passes to readAndValidate
ExpectedCmd(op) ==
  CASE op.name = "Sense" -> queryCommand
    [] op.name = "SetMode" -> modeCommand
    [] op.name = "SetDeviceID" -> deviceIDCommand
    [] op.name \in {"Sleep", "Wake"} -> sleepWorkCommand
    [] op.name = "SetPeriod" -> workingPeriodCommand
    [] op.name = "GetFirmwareVersion" -> firmwareVersionCommand

\* what each operation returns once readAndValidate returned b, err
Result(op, b, err) ==
  CASE op.name = "Sense" ->
         LET r == sense(b, err) IN [err |-> r.err, val |-> r.m]
    [] op.name = "GetFirmwareVersion" ->
         IF err /= "nil" THEN [err |-> err, val |-> <<>>]
         ELSE [err |-> "nil", val |-> Slice(b, 3, 6)]
    [] OTHER -> [err |-> err, val |-> <<>>]

listenIdle == \A p \in Listeners \cup Stoppers : pc[p] = "idle"

\* Listen and the commands share the port and nothing else, and what one has
\* done does not matter to the other: the commands are explored on a device
\* on which Listen has made no channel yet
neverListened == nextChan = 0

\* the caller enters an operation; SetPeriod checks its argument first
CmdCall(op) ==
  /\ ~panicked
  /\ pc[Commander] = "idle"
  /\ listenIdle
  /\ neverListened
  /\ cop' = op
  /\ IF op.name = "SetPeriod" /\ badPeriod(op.arg)
     THEN /\ cmdRet' = [err |-> "working period must be in [0, 30]", val |-> <<>>]
          /\ cmdBytes' = <<>>
          /\ pc' = [pc EXCEPT ![Commander] = "Cdone"]
     ELSE /\ cmdBytes' = CmdBytes(op)
          /\ pc' = [pc EXCEPT ![Commander] = "Cwrite"]
          /\ UNCHANGED cmdRet
  /\ UNCHANGED <<listenVars, devVars, codecVars, rv, written, io>>

\* "if err := d.write(cmd); err != nil" with the test left out
writeFailedNever(w) == FALSE

\* "if err := d.write(cmd); err != nil"
writeFailed(w) == w /= "nil"

\* SetDeviceID with d.id set to the acknowledged id
idAfterCached(op, err, cur) ==
  IF op.name = "SetDeviceID" /\ err = "nil" THEN op.arg ELSE cur

\* d.id once an operation has its answer: no operation assigns it
idAfter(op, err, cur) == cur

\* func (d *Dev) write(b []byte) error, then the operation's "if err != nil"
CmdWrite ==
  /\ ~panicked
  /\ pc[Commander] = "Cwrite"
  /\ written' = Append(written, WriteFrame(cmdBytes, id))
  /\ \E w \in PortWrites :
       /\ io' = [io EXCEPT !.werr = w, !.failed = @ \/ w /= "nil",
                           !.afterFail = @ \/ io.failed]
       /\ IF writeFailed(w)
          THEN /\ cmdRet' = [err |-> w, val |-> <<>>]
               /\ pc' = [pc EXCEPT ![Commander] = "Cdone"]
               /\ UNCHANGED rv
          ELSE /\ EnterRV(Commander, ExpectedType(cop), ExpectedCmd(cop))
               /\ pc' = [pc EXCEPT ![Commander] = "R264"]
               /\ UNCHANGED cmdRet
  /\ UNCHANGED <<listenVars, devVars, codecVars, cop, cmdBytes>>

\* the operation returns what it makes of readAndValidate's result
CmdRet ==
  /\ ~panicked
  /\ pc[Commander] = "Cret"
  /\ cmdRet' = Result(cop, rv[Commander].b, rv[Commander].err)
  /\ id' = idAfter(cop, rv[Commander].err, id)
  /\ ackedIDs' = IF cop.name = "SetDeviceID" /\ rv[Commander].err = "nil"
                 THEN ackedIDs \cup {cop.arg} ELSE ackedIDs
  /\ pc' = [pc EXCEPT ![Commander] = "Cdone"]
  /\ UNCHANGED <<listenVars, readTimeout, codecVars, rv, cop, cmdBytes, written, io>>

\* the caller has the result; the next operation starts afresh
CmdDone ==
  /\ ~panicked
  /\ pc[Commander] = "Cdone"
  /\ pc' = [pc EXCEPT ![Commander] = "idle"]
  /\ rv' = [rv EXCEPT ![Commander] = NoRv]
  /\ cop' = NoOp
  /\ cmdBytes' = <<>>
  /\ written' = <<>>
  /\ cmdRet' = NoRet
  /\ io' = NoIO
  /\ UNCHANGED <<listenVars, devVars, codecVars>>

\* the steps of Listen, of Stop and of the reads
ListenNext ==
  \/ \E p \in Readers : Read(p)
  \/ \E l \in Listeners : ListenLock(l)
  \/ \E l \in Listeners : ListenCheck(l)
  \/ \E l \in Listeners : ListenMake(l)
  \/ \E l \in Listeners : ListenSelect(l)
  \/ \E l \in Listeners : ListenDoneLock(l)
  \/ \E l \in Listeners : ListenReset(l)
  \/ \E l \in Listeners : ListenPolled(l)
  \/ \E l \in Listeners : ListenDispatch(l)
  \/ \E s \in Stoppers : StopLock(s)
  \/ \E s \in Stoppers : StopCheck(s)
  \/ \E s \in Stoppers : StopClose(s)

\* the steps of the command caller
CmdNext ==
  \/ \E op \in Ops : CmdCall(op)
  \/ CmdWrite
  \/ CmdRet
  \/ CmdDone

Next == ListenNext \/ CmdNext \/ HandlerReturn

Spec == Init /\ [][Next]_vars

\* a read during which the clock advances
TimedRead(p) == Read(p) /\ rv'[p].elapsed > rv[p].elapsed

\* Scheduling: a goroutine that can run does run; sync.Mutex hands the lock to
\* a goroutine that keeps waiting for it; a port.Read call returns, and the
\* clock advances while reads go on.  Whether Listen, Stop or a command is
\* called at all is up to the caller.
Fairness ==
  /\ \A p \in Readers : WF_vars(Read(p)) /\ WF_vars(TimedRead(p))
  /\ \A l \in Listeners :
       /\ WF_vars(ListenCheck(l)) /\ WF_vars(ListenMake(l))
       /\ WF_vars(ListenSelect(l)) /\ SF_vars(ListenDoneLock(l))
       /\ WF_vars(ListenReset(l)) /\ WF_vars(ListenPolled(l))
       /\ WF_vars(ListenDispatch(l))
  /\ \A s \in Stoppers : WF_vars(StopCheck(s)) /\ WF_vars(StopClose(s))

\* Listen and Stop under that scheduling, with a caller that issues no command
FairSpec == Init /\ [][ListenNext]_vars /\ Fairness

(***************************************************************************)
(* The codec functions on their own: one call, its arguments drawn from    *)
(* the sets below.                                                         *)
(***************************************************************************)
\* the sum of bytes lo..hi (Go indices) of f
RECURSIVE SumRange(_, _, _)
SumRange(f, lo, hi) == IF lo > hi THEN 0 ELSE f[lo + 1] + SumRange(f, lo + 1, hi)

\* longest byte sequence handed to checksum
MaxLen == 3

ByteSamples == {0, 1, 127, 128, 255}

RECURSIVE SeqsUpTo(_, _)
SeqsUpTo(S, n) ==
  IF n = 0 THEN {<<>>}
  ELSE LET shorter == SeqsUpTo(S, n - 1)
       IN  shorter \cup {Append(q, x) : q \in shorter, x \in S}

\* checksum(nil), checksum([]byte{}) and checksum of short sequences
ChecksumCalls ==
  { [NoCodec EXCEPT !.fn = "checksum", !.isnil = TRUE] }
  \cup { [NoCodec EXCEPT !.fn = "checksum", !.b = q] : q \in SeqsUpTo(ByteSamples, MaxLen) }

PMSamples == {0, 45, 255}

\* frames for unmarshal: any measurement bytes, in a well-formed frame and in
\* one that is wrong everywhere else; and slices of another length
UnmarshalCalls ==
  { [NoCodec EXCEPT !.fn = "unmarshal", !.b =
        IF wellFormed
        THEN <<head, cmdTypeQuery, a, b, c, d, 84, 111, (a + b + c + d + 195) % 256, tail>>
        ELSE <<0, cmdTypeQuery, a, b, c, d, 1, 2, 3, 4>>] :
      wellFormed \in BOOLEAN,
      a \in PMSamples, b \in PMSamples, c \in PMSamples, d \in PMSamples }
  \cup { [NoCodec EXCEPT !.fn = "unmarshal", !.b = q] :
           q \in {<<>>, <<head, cmdTypeQuery, 45, 0, 184, 0, 84, 111, 168>>} }

\* the defects a frame may have
Defects == {"length", "header", "tail", "checksum"}

\* frame f with the defects of D: one byte short, 0xAB for the header, 0xAC
\* for the tail, byte 8 one too high (as in TestValidateFailures)
Damage(f, D) ==
  LET f1 == IF "header" \in D THEN ReplaceAt(f, 0, 171) ELSE f
      f2 == IF "tail" \in D THEN ReplaceAt(f1, 9, 172) ELSE f1
      f3 == IF "checksum" \in D THEN ReplaceAt(f2, 8, (f2[9] + 1) % 256) ELSE f2
  IN  IF "length" \in D THEN SubSeq(f3, 1, 9) ELSE f3

ValidateFrames ==
  { Damage(f, D) :
      f \in { MkFrame(cmdTypeQuery, <<45, 0, 184, 0, 84, 111>>),
              MkFrame(cmdTypeGeneral, <<modeCommand, 1, 0, 0, 84, 111>>) },
      D \in SUBSET Defects }

ValidateCalls ==
  { [NoCodec EXCEPT !.fn = "validate", !.b = f, !.typ = t, !.cmd = c] :
      f \in ValidateFrames, t \in {cmdTypeQuery, cmdTypeGeneral},
      c \in {45, modeCommand} }

CodecInit == DevInit /\ codec \in ChecksumCalls \cup UnmarshalCalls \cup ValidateCalls

Pending(fn) == codec.fn = fn /\ ~codec.done

Return(v) ==
  /\ codec' = [codec EXCEPT !.done = TRUE, !.out = v]
  /\ UNCHANGED <<pc, listenVars, devVars, rv, cmdVars>>

CallChecksum == Pending("checksum") /\ Return(checksum(codec.b))

CallUnmarshal == Pending("unmarshal") /\ Return(unmarshal(codec.b))

CallValidate == Pending("validate") /\ Return(validate(codec.b, codec.typ, codec.cmd))

CodecNext == CallChecksum \/ CallUnmarshal \/ CallValidate

CodecSpec == CodecInit /\ [][CodecNext]_vars

Done(fn) == codec.fn = fn /\ codec.done

\* C11: validate returns nil exactly for a frame of length 10 with head
\* 0xAA, the expected type, the expected command id in byte 2 unless the
\* expected type is 0xC0, tail 0xAB and byte 8 the checksum of bytes 2..7;
\* and a frame whose one defect is its length, its head, its tail or its
\* checksum gets the error that names that defect.
C11_ValidateErrors ==
  Done("validate") =>
    LET f == codec.b
        lenOK == Len(f) = 10
        headOK == f[1] = 170
        typeOK == f[2] = codec.typ
        cmdOK == codec.typ = 192 \/ f[3] = codec.cmd
        tailOK == f[10] = 171
        sumOK == f[9] = SumRange(f, 2, 7) % 256
    IN  /\ (codec.out = "nil")
             <=> (lenOK /\ headOK /\ typeOK /\ cmdOK /\ tailOK /\ sumOK)
        /\ ~lenOK => codec.out = "bad packet length"
        /\ (lenOK /\ ~headOK) => codec.out = "bad header"
        /\ (lenOK /\ headOK /\ typeOK /\ cmdOK /\ ~tailOK) => codec.out = "bad tail"
        /\ (lenOK /\ headOK /\ typeOK /\ cmdOK /\ tailOK /\ ~sumOK)
             => codec.out = "bad checksum"

\* validate has refused a frame whose one defect is its tail
C11_Witness ==
  /\ Done("validate") /\ codec.out = "bad tail"
  /\ codec.b = <<170, 192, 45, 0, 184, 0, 84, 111, 168, 172>>
  /\ codec.typ = 192

\* C12: checksum returns the sum of its bytes modulo 256, and 0 for the empty
\* and for the nil slice.
C12_Checksum ==
  Done("checksum") =>
    /\ codec.out = SumRange(codec.b, 0, Len(codec.b) - 1) % 256
    /\ codec.out \in 0..255
    /\ (codec.isnil \/ codec.b = <<>>) => codec.out = 0

\* checksum has summed bytes whose sum exceeds one byte
C12_Witness ==
  /\ Done("checksum") /\ codec.b = <<255, 128, 1>> /\ codec.out = 128

LoopPcs == {"L116", "R264", "R270", "L128", "L133", "L118", "L122"}
Polling == {l \in Listeners : pc[l] \in LoopPcs}

\* C1: at most one polling loop is active at any time, and a Listen call that
\* finds doneChan non-nil returns "already listening" and leaves doneChan, the
\* channel's state and the position of every other goroutine as they were.
C1_SingleListener ==
  [][ /\ Cardinality(Polling') <= 1
      /\ \A l \in Listeners :
           (pc[l] = "L107" /\ doneChan /= NIL /\ pc'[l] /= "L107")
             => /\ pc'[l] = "idle"
                /\ listenRet'[l] = "already listening"
                /\ UNCHANGED <<doneChan, closeCount, nextChan>>
                /\ \A q \in Procs \ {l} : pc'[q] = pc[q] ]_vars

\* a second Listen has been refused while the first is polling, uncancelled
C1_Witness ==
  \E l, k \in Listeners :
    /\ l /= k
    /\ pc[l] = "idle" /\ listenRet[l] = "already listening"
    /\ pc[k] = "R270"
    /\ doneChan /= NIL /\ ~isClosed(doneChan)

\* C2: Stop never panics and closes no channel twice; a Stop that finds
\* doneChan nil changes neither doneChan nor any channel, so that a channel
\* made later starts open; a Stop that finds doneChan non-nil returns with
\* that channel closed exactly once and nothing else changed.
C2_StopIdempotent ==
  [][ /\ ~panicked'
      /\ \A c \in Chans : /\ closeCount'[c] <= 1
                          /\ (c > nextChan') => closeCount'[c] = 0
      /\ \A s \in Stoppers :
           /\ (pc[s] = "S142" /\ doneChan = NIL /\ pc'[s] /= "S142")
                => /\ pc'[s] = "idle"
                   /\ mu' = "free"
                   /\ UNCHANGED <<doneChan, closeCount, nextChan>>
           /\ (pc[s] = "S146" /\ pc'[s] /= "S146")
                => /\ pc'[s] = "idle"
                   /\ mu' = "free"
                   /\ doneChan' = doneChan
                   /\ closeCount'[doneChan] = 1
                   /\ \A c \in Chans \ {doneChan} : closeCount'[c] = closeCount[c] ]_vars

\* two Stop calls have returned during one Listening period
C2_Witness ==
  /\ doneChan /= NIL
  /\ \A s \in Stoppers : pc[s] = "idle" /\ stopChan[s] = doneChan
  /\ closeCount[doneChan] = 1
  /\ ~panicked

\* a Stop found the handle idle, and the Listen started after it is polling
C2_WitnessIdle ==
  /\ \E s \in Stoppers : pc[s] = "idle" /\ stopChan[s] = NIL
  /\ doneChan /= NIL /\ ~isClosed(doneChan)
  /\ \E l \in Listeners : pc[l] = "R270"

\* C9: when the polling step returned the timeout error, the next step of
\* Listen leads back to the select of line 116, with Listen not returned,
\* doneChan still set and no handler started.
C9_TimeoutContinues ==
  [][ \A l \in Listeners :
        (pc[l] = "L128" /\ rv[l].err = "errTimeout" /\ pc'[l] /= "L128")
          => /\ pc'[l] = "L116"
             /\ listenRet'[l] = "none"
             /\ doneChan /= NIL /\ doneChan' = doneChan
             /\ handlers' = handlers ]_vars

\* Listen is back at the select after a poll that timed out
C9_Witness ==
  \E l \in Listeners :
    /\ pc[l] = "L116" /\ polled[l].err = "errTimeout"
    /\ doneChan /= NIL /\ listenRet[l] = "none"

\* C3: once the channel of an active Listen is closed, that Listen returns
\* nil with doneChan reset to nil, and a Listen call that finds doneChan nil
\* is not refused but goes on to make its channel.
C3_StopEndsListen ==
  /\ \A l \in Listeners :
       (pc[l] \in LoopPcs /\ doneChan /= NIL /\ isClosed(doneChan))
         ~> (pc[l] = "idle" /\ listenRet[l] = "nil" /\ doneChan = NIL)
  /\ [][ \A l \in Listeners :
           (pc[l] = "L107" /\ doneChan = NIL /\ pc'[l] /= "L107")
             => (pc'[l] = "L112" /\ listenRet'[l] = "none") ]_vars

\* a Listen returned nil after Stop, and the Listen called after it is polling
C3_Witness ==
  \E l, k \in Listeners :
    /\ l /= k
    /\ pc[l] = "idle" /\ listenRet[l] = "nil"
    /\ pc[k] = "R270" /\ doneChan = 2 /\ closeCount[1] = 1

(***************************************************************************)
(* The command layer and the read-validate loop.                           *)
(***************************************************************************)
\* C5: once a transport call of an operation has failed, the operation makes
\* no further transport call and returns that I/O error.
C5_IOErrorPropagates ==
  io.failed =>
    /\ ~io.afterFail
    /\ pc[Commander] \notin {"R264", "R270"}
    /\ (pc[Commander] = "Cdone" => cmdRet.err = "io")

\* C6: SetPeriod with minutes outside 0..30 returns the validation error with
\* nothing written and nothing read; with minutes in 0..30 it writes one frame
\* whose bytes 2..4 are 0x08, 0x01, minutes.
C6_SetPeriod ==
  (cop.name = "SetPeriod") =>
    IF cop.arg < 0 \/ cop.arg > 30
    THEN /\ pc[Commander] = "Cdone"
         /\ cmdRet.err = "working period must be in [0, 30]"
         /\ written = <<>>
         /\ ~io.reads
    ELSE /\ cmdRet.err /= "working period must be in [0, 30]"
         /\ Len(written) = (IF pc[Commander] = "Cwrite" THEN 0 ELSE 1)
         /\ \A i \in 1..Len(written) : SubSeq(written[i], 3, 5) = <<8, 1, cop.arg>>

\* SetPeriod(30) has been acknowledged
C6_Witness ==
  /\ cop = [name |-> "SetPeriod", arg |-> 30]
  /\ pc[Commander] = "Cdone" /\ cmdRet.err = "nil"
  /\ Len(written) = 1

\* SetPeriod(31) has been refused
C6_WitnessRefused ==
  /\ cop = [name |-> "SetPeriod", arg |-> 31]
  /\ pc[Commander] = "Cdone" /\ cmdRet.err /= "nil"

\* readAndValidate has returned to its caller
Returned(p) == pc[p] = Caller(p)

\* the last read of p produced a frame that matches what p waits for
Matched(p) ==
  rv[p].err /= "errTimeout" /\ validate(rv[p].b, rv[p].typ, rv[p].cmd) = "nil"

\* C7: a readAndValidate call that no read has answered with a matching frame
\* is never still running later than readTimeout after it was entered, and
\* when it returns it returns the timeout error, from a read that began no
\* later than readTimeout, hence no later than readTimeout plus the duration
\* of one read.
C7_TimeoutBound ==
  \A p \in Readers :
    /\ pc[p] \in {"R264", "R270"} => rv[p].elapsed <= readTimeout
    /\ (Returned(p) /\ ~Matched(p))
         => /\ rv[p].err = "errTimeout"
            /\ rv[p].readAt <= readTimeout
            /\ rv[p].elapsed <= readTimeout + MaxReadDur

\* a call has timed out at the latest possible moment
C7_Witness ==
  \E p \in Readers :
    /\ Returned(p) /\ rv[p].err = "errTimeout"
    /\ rv[p].elapsed = readTimeout + MaxReadDur

\* C8 as stated: a frame is returned only while the deadline has not passed.
C8_NoSuccessAfterDeadline ==
  \A p \in Readers :
    (Returned(p) /\ rv[p].err = "nil") => rv[p].elapsed <= readTimeout

\* C8 amended: a frame is returned only from a read that began no later than
\* readTimeout after entry and that matched; the deadline is tested only after
\* a read that failed, so such a frame may arrive up to one read's duration
\* after the deadline.
C8_NoReadAfterDeadline ==
  \A p \in Readers :
    (Returned(p) /\ rv[p].err = "nil")
      => /\ rv[p].readAt <= readTimeout
         /\ validate(rv[p].b, rv[p].typ, rv[p].cmd) = "nil"
         /\ rv[p].elapsed - rv[p].readAt <= MaxReadDur

\* a frame has been returned after the deadline
C8_Witness ==
  \E p \in Readers :
    /\ Returned(p) /\ rv[p].err = "nil"
    /\ rv[p].elapsed > readTimeout

\* the first n bytes of a frame's data region are the cmd slice, zero-padded
DataIs(f, n) ==
  \A i \in 0..(n - 1) :
    f[i + 3] = (IF i < Len(cmdBytes) THEN cmdBytes[i + 1] ELSE 0)

\* C10 as stated: every frame written is 18 bytes, with a 12-byte data region.
C10_Frame18 ==
  \A k \in 1..Len(written) :
    LET f == written[k]
    IN  /\ Len(f) = 18
        /\ f[1] = 170 /\ f[2] = 180
        /\ DataIs(f, 12)
        /\ f[15] = id \div 256 /\ f[16] = id % 256
        /\ f[17] = SumRange(f, 2, 15) % 256
        /\ f[18] = 171

\* C10 amended: every frame written is 19 bytes: 0xAA, 0xB4, the cmd slice
\* zero-padded to 13 bytes (bytes 2-14), the device id big-endian (bytes
\* 15-16), the low 8 bits of the sum of bytes 2-16 (byte 17), 0xAB (byte 18).
C10_Frame19 ==
  \A k \in 1..Len(written) :
    LET f == written[k]
    IN  /\ Len(f) = 19
        /\ f[1] = 170 /\ f[2] = 180
        /\ Len(cmdBytes) <= 13 /\ DataIs(f, 13)
        /\ f[16] = id \div 256 /\ f[17] = id % 256
        /\ f[18] = SumRange(f, 2, 16) % 256
        /\ f[19] = 171

\* SetDeviceID, whose cmd slice fills the data region, has written its frame
C10_Witness ==
  /\ cop.name = "SetDeviceID"
  /\ Len(written) = 1 /\ Len(cmdBytes) = 13
  /\ written[1][14] = 161 /\ written[1][15] = 96

\* C14: d.id stays the id New gave the handle, and every frame written
\* carries 0xFF 0xFF in bytes 15-16, also after the sensor has acknowledged a
\* SetDeviceID with another id.
C14_DeviceIDFixed ==
  /\ id = 65535
  /\ \A k \in 1..Len(written) : written[k][16] = 255 /\ written[k][17] = 255

\* a Sense frame has been written after the sensor acknowledged SetDeviceID
C14_Witness ==
  /\ ackedIDs = {41312}
  /\ cop.name = "Sense" /\ Len(written) = 1
  /\ written[1][16] = 255 /\ written[1][17] = 255

\* what port.Read yielded is a full packet that matches what p waits for
GoodRead(p) ==
  /\ rv[p].raw.err = "nil" /\ rv[p].raw.n = 10 /\ Len(rv[p].raw.data) = 10
  /\ validate(rv[p].raw.data, rv[p].typ, rv[p].cmd) = "nil"

\* C15: readAndValidate returns a frame only when its last read was a full
\* packet that passes validate, and the frame is that packet, byte for byte;
\* a call whose last read erred, was short or did not match returns the
\* timeout error, never a frame.
C15_OneReadOneFrame ==
  \A p \in Readers :
    Returned(p) =>
      /\ (rv[p].err = "nil") => (GoodRead(p) /\ rv[p].b = rv[p].raw.data)
      /\ ~GoodRead(p) => rv[p].err = "errTimeout"

\* a command got its acknowledgment after a read that erred was discarded
C15_Witness ==
  /\ Returned(Commander) /\ rv[Commander].err = "nil"
  /\ io.failed /\ io.afterFail
  /\ rv[Commander].b = rv[Commander].raw.data

\* the operation has passed its call of d.write
Written == pc[Commander] \in {"R264", "R270", "Cret", "Cdone"}

\* the write comes first and only once; a failed write ends the operation
WriteFirst ==
  /\ Len(written) <= 1
  /\ io.reads => (Len(written) = 1 /\ io.werr = "nil")
  /\ io.werr = "io"
       => /\ ~io.reads
          /\ pc[Commander] = "Cdone"
          /\ cmdRet.err = "io"

\* C16 as stated: every operation, SetPeriod included, writes exactly once.
C16_OneWriteEach ==
  /\ WriteFirst
  /\ (cop /= NoOp /\ Written) => Len(written) = 1

\* C16 amended: every operation writes exactly once and before it reads, and
\* returns the write error without reading when the write fails, except
\* SetPeriod with minutes outside 0..30, which neither writes nor reads.
C16_OneWriteUnlessRefused ==
  /\ WriteFirst
  /\ (cop /= NoOp /\ Written)
       => IF cop.name = "SetPeriod" /\ (cop.arg < 0 \/ cop.arg > 30)
          THEN written = <<>> /\ ~io.reads
          ELSE Len(written) = 1

\* an operation has returned the error of its write, having read nothing
C16_Witness ==
  /\ cop.name = "GetFirmwareVersion" /\ pc[Commander] = "Cdone"
  /\ io.werr = "io" /\ cmdRet.err = "io"
  /\ Len(written) = 1 /\ ~io.reads

(***************************************************************************)
(* Handlers, the mutex and cancellation.                                   *)
(***************************************************************************)
\* the measurement carried by the frame b, in tenths
Decoded(b) == [PM25 |-> b[3] + 256 * b[4], PM10 |-> b[5] + 256 * b[6]]

\* the polling loop of l is not held up at a step of its own
NeverWaits(l) ==
  /\ pc[l] = "L116" => ENABLED ListenSelect(l)
  /\ pc[l] = "L128" => ENABLED ListenPolled(l)
  /\ pc[l] = "L133" => ENABLED ListenDispatch(l)

\* C17: a valid query frame returned to the polling loop starts exactly one
\* handler with the measurement decoded from that frame, handlers are started
\* in the order of the frames and by nothing else, and the loop never waits
\* for a handler: with handlers that never return it still takes its next
\* step, and it still returns nil once the channel is closed.
C17_FireAndForget ==
  /\ [](\A l \in Listeners : NeverWaits(l))
  /\ [][ /\ \A l \in Listeners :
              /\ (pc[l] = "L128" /\ rv[l].err = "nil" /\ pc'[l] /= "L128")
                   => /\ validate(rv[l].b, cmdTypeQuery, 0) = "nil"
                      /\ pc'[l] = "L133"
                      /\ polled'[l] = [m |-> Decoded(rv[l].b), err |-> "nil"]
                      /\ handlers' = handlers
              /\ (pc[l] = "L133" /\ pc'[l] /= "L133")
                   => /\ handlers' = Append(handlers, polled[l].m)
                      /\ running' = running + 1
                      /\ pc'[l] = "L116"
         /\ handlers' /= handlers
              => \E l \in Listeners : pc[l] = "L133" /\ pc'[l] = "L116" ]_vars
  /\ \A l \in Listeners :
       (pc[l] \in LoopPcs /\ running > 0 /\ doneClosed)
         ~> (pc[l] = "idle" /\ listenRet[l] = "nil")

\* two frames were dispatched in their order, neither handler has returned,
\* and Listen has returned nil after Stop
C17_Witness ==
  \E l \in Listeners :
    /\ pc[l] = "idle" /\ listenRet[l] = "nil" /\ doneChan = NIL
    /\ Len(handlers) = 2 /\ handlers[1] /= handlers[2]
    /\ running = 2

\* the positions of Listen and Stop at which d.doneChan or its channel is used
FieldReads == {"L107", "L116", "S142", "S146"}
FieldWrites == {"L112", "L122"}

\* the step of p from one of the positions ps is made holding the mutex
Locked(p, ps) == (pc[p] \in ps /\ pc'[p] /= pc[p]) => mu = p

\* C18 as stated: every use of d.doneChan in Listen and Stop, the select of
\* line 117 included, is made holding d.mu.
C18_AllUnderMutex ==
  [][ \A p \in Listeners \cup Stoppers :
        Locked(p, FieldReads \cup FieldWrites) ]_vars

\* C18: the allocation, the reset, the close and the checks of lines 107 and
\* 142-146 are made holding d.mu; the select of line 117 reads d.doneChan
\* without it, but then the field is non-nil and no other goroutine is at a
\* write of it.
C18_WritesUnderMutex ==
  [][ \A p \in Listeners \cup Stoppers :
        /\ Locked(p, (FieldReads \ {"L116"}) \cup FieldWrites)
        /\ (pc[p] = "L116" /\ pc'[p] /= "L116")
             => /\ doneChan /= NIL
                /\ \A q \in Procs \ {p} : pc[q] \notin FieldWrites ]_vars

\* Listen is at its select while Stop holds the mutex and is about to close
C18_Witness ==
  \E l \in Listeners, s \in Stoppers :
    pc[l] = "L116" /\ pc[s] = "S146" /\ mu = s /\ doneChan /= NIL

\* C19: once the channel of an active Listen is closed, no poll is started:
\* the poll in flight goes on to its own end, at most one handler is started
\* after the close, the select takes the cancellation case, and Listen resets
\* doneChan and returns nil.
C19_CancelBetweenPolls ==
  /\ [](lateDispatch <= 1)
  /\ [][ \A l \in Listeners :
           (pc[l] \in LoopPcs /\ doneClosed /\ pc'[l] /= pc[l])
             => /\ pc[l] = "L116" => pc'[l] = "L118"
                /\ pc[l] \in {"R264", "R270"} => pc'[l] \in {"R270", "L128"}
                /\ pc[l] = "L128" => pc'[l] \in {"L116", "L133"}
                /\ pc[l] = "L133" => pc'[l] = "L116"
                /\ pc[l] = "L118" => pc'[l] = "L122"
                /\ pc[l] = "L122"
                     => /\ pc'[l] = "idle" /\ listenRet'[l] = "nil"
                        /\ doneChan' = NIL ]_vars

\* the poll in flight at the close brought a measurement, its handler was
\* started after the close, and Listen then took the cancellation case
C19_Witness ==
  \E l \in Listeners :
    pc[l] = "L118" /\ doneClosed /\ lateDispatch = 1

\* C20: the polling step yields a measurement or the timeout and no other
\* error, Listen leaves the loop only with its channel closed and returns
\* nil, and doneChan is non-nil exactly while a polling loop is active.
C20_OnlyStopEndsListen ==
  /\ [](/\ doneChan /= NIL <=> Polling /= {}
        /\ \A l \in Listeners :
             /\ listenRet[l] \in {"none", "nil", "already listening"}
             /\ pc[l] = "L128"
                  => /\ sense(rv[l].b, rv[l].err).err \in {"nil", "errTimeout"}
                     /\ rv[l].err = "nil" => Len(rv[l].b) = packetLength)
  /\ [][ \A l \in Listeners :
           (pc[l] \in LoopPcs /\ pc'[l] \notin LoopPcs)
             => /\ doneClosed
                /\ closeCount[doneChan] = 1
                /\ pc'[l] = "idle" /\ listenRet'[l] = "nil" ]_vars

\* a poll whose last read failed in the transport ended in the timeout, and
\* Listen is still in its loop with its channel open
C20_Witness ==
  \E l \in Listeners :
    /\ pc[l] = "L128" /\ rv[l].err = "errTimeout" /\ rv[l].raw.err = "io"
    /\ doneChan /= NIL /\ ~isClosed(doneChan) /\ listenRet[l] = "none"

=============================================================================
